---- MODULE Spec2Model ----
(***************************************************************************)
(* Molt Hotel simulation: location graph, access control, path finding,   *)
(* per-agent movement and the tick loop of sim.ts (the revision with      *)
(* movement, "sim.ts - FIXED VERSION").                                   *)
(***************************************************************************)
EXTENDS Integers, Sequences, FiniteSets, TLC

VARIABLES
    hotelContext,    \* hotelContext.locations: name -> location record
    agentsConfig,    \* agentsConfig: agent name -> AgentConfig record
    agentPositions,  \* agentPositions: agent name -> property key of the stored value
    tickCounter,     \* let tickCounter = 0
    pc,              \* where the tick loop stands
    queue,           \* agents selected for the running tick, not yet finished
    turnLocation,    \* `location` captured by tick() before the dialogue call
    logged,          \* the 'arrive a <destination>' entries appended to logs/hotel.log by the last step
    requests,        \* the moveAgent calls made by the last step, with what they returned
    external,        \* how the external calls tick() awaited ended, when the last step resumed it
    commands,        \* console commands handled so far
    journey,         \* per agent: the route installed by its last accepted move and the hops done on it
    lastCall,        \* the last call of the function harness and the value it returned
    agentsConfigFile,\* the contents of agents-config.json, where the model follows the file
    managed,         \* the last change manage.ts wrote to agents-config.json
    selections       \* what the scheduler has done: ticks begun, whether the last one
                     \* selected nobody and, for the scheduler alone, its last selections

vars == <<hotelContext, agentsConfig, agentPositions, tickCounter, pc, queue,
          turnLocation, logged, requests, external, commands, journey, lastCall, selections,
          agentsConfigFile, managed>>

fileVars == <<agentsConfigFile, managed>>

simVars == <<agentsConfig, agentPositions, tickCounter, pc, queue, turnLocation,
             logged, requests, external, commands, journey>>

callVars == <<lastCall>>

----------------------------------------------------------------------------
(* Bounds of the model *)

\* ticks the main loop runs (the budget check of the main loop stops it)
MaxTick == 7

\* console commands typed during a run
MaxCommands == 1

\* ticks of a run of the scheduler alone
MaxRounds == 5

\* the lastSmoke found in agents-config.json at startup for an agent that has smoked
MaxSavedSmoke == 1

\* most hops left of a journey found in agents-config.json at startup
MaxSavedHops == 1

(* Program constants *)

SMOKING_INTERVAL == 6

SmokingArea == "outside_smoking_area"

\* What a property lookup sees when agentPositions[agent] holds the object
\* {id, ...loc} stored at startup, and when it holds nothing at all.
ObjectPosition == "[object Object]"

NoPosition == "undefined"

\* undefined for movingTo
NoTarget == "undefined"

----------------------------------------------------------------------------
(* The roster and the location names used on the command line *)

\* agents-config.json where the model does not follow its contents
NotFollowed == "not followed"

\* no run of manage.ts has changed agents-config.json
NoChange == [cmd |-> "none", agent |-> "", job |-> "", flag |-> FALSE]

Agents == {"Louis", "Fred"}

\* Object.keys(agentsConfig): insertion order of agents-config.json
AgentOrder == <<"Louis", "Fred">>

\* the names agents-config.json can hold, in file order
RosterOrder == <<"Louis", "Fred", "Maika", "Grenier">>

\* agent names typed at the console: the roster and one unknown name
AgentNames == Agents \cup {"Kevin"}

\* owner: null
NoOwner == "null"

\* a location of hotel.json; a room is written locked when it has an owner
Location(floor, staff, private, conns, owner) ==
    [floor |-> floor, staff_only |-> staff, is_private_room |-> private,
     connections |-> conns, owner |-> owner, is_locked |-> owner # NoOwner]

\* hotel.json of the simulation: floor 1 with a private room that lies on the
\* shortest route hall_1 -> gym, a connection to another floor and a
\* connection that names no location.
HotelMain(owner) ==
    [n \in {"lobby", "hall_1", "room_a1", "gym", "outside_smoking_area", "hall_2"} |->
        CASE n = "lobby" ->
               Location(1, FALSE, FALSE, <<"hall_1", "outside_smoking_area", "hall_2">>, NoOwner)
          [] n = "hall_1" -> Location(1, FALSE, FALSE, <<"lobby", "room_a1", "sauna">>, NoOwner)
          [] n = "room_a1" -> Location(1, FALSE, TRUE, <<"hall_1", "gym">>, owner)
          [] n = "gym" -> Location(1, FALSE, FALSE, <<"room_a1", "outside_smoking_area">>, NoOwner)
          [] n = "outside_smoking_area" -> Location(1, FALSE, FALSE, <<"lobby", "gym">>, NoOwner)
          [] n = "hall_2" -> Location(2, FALSE, FALSE, <<"lobby">>, NoOwner)]

\* A second hotel.json for the function harness: a self-loop, a cycle of
\* one-way edges, a location reached from another floor only, a staff-only
\* location, a private room at a dead end, a connection to another floor
\* and one to nowhere.
HotelOneWay(owner) ==
    [n \in {"lobby", "bar", "pool", "spa", "room_a1", "rooftop_terrace"} |->
        CASE n = "lobby" -> Location(1, FALSE, FALSE, <<"lobby", "bar">>, NoOwner)
          [] n = "bar" -> Location(1, TRUE, FALSE, <<"pool", "room_a1">>, NoOwner)
          [] n = "pool" ->
               Location(1, FALSE, FALSE, <<"lobby", "sauna", "rooftop_terrace">>, NoOwner)
          [] n = "spa" -> Location(1, FALSE, FALSE, <<>>, NoOwner)
          [] n = "room_a1" -> Location(1, TRUE, TRUE, <<"bar">>, owner)
          [] n = "rooftop_terrace" -> Location(2, FALSE, FALSE, <<"pool", "spa">>, NoOwner)]

\* A third hotel.json, for the calls of assignRoom: three private rooms
\* along a hall.
HotelRooms(owner1, owner2, owner3) ==
    [n \in {"lobby", "hall_1", "room_a1", "room_a2", "room_a3"} |->
        CASE n = "lobby" -> Location(1, FALSE, FALSE, <<"hall_1">>, NoOwner)
          [] n = "hall_1" ->
               Location(1, FALSE, FALSE, <<"lobby", "room_a1", "room_a2", "room_a3">>, NoOwner)
          [] n = "room_a1" -> Location(1, FALSE, TRUE, <<"hall_1">>, owner1)
          [] n = "room_a2" -> Location(1, FALSE, TRUE, <<"hall_1">>, owner2)
          [] n = "room_a3" -> Location(1, FALSE, TRUE, <<"hall_1">>, owner3)]

Owners == Agents \cup {NoOwner}

\* location names typed at the console or passed to findPath
LocationNames ==
    {"lobby", "hall_1", "room_a1", "gym", "outside_smoking_area", "hall_2",
     "bar", "pool", "spa", "rooftop_terrace", "sauna"}

----------------------------------------------------------------------------
(* Location graph and access control *)

locations == hotelContext

Exists(location) == location \in DOMAIN locations

\* canAccessLocation(agentName, location)
canAccessLocationStaffOnly(agentName, location) ==
    IF ~Exists(location) THEN FALSE
    ELSE IF locations[location].staff_only THEN FALSE
    ELSE IF ~locations[location].is_private_room THEN TRUE
    ELSE locations[location].owner = agentName

canAccessLocation(agentName, location) ==
    IF ~Exists(location) THEN FALSE
    ELSE IF ~locations[location].is_private_room THEN TRUE
    ELSE locations[location].owner = agentName

\* One pass of `for (const neighbor of currentLoc.connections)`: every
\* neighbour not yet visited is marked visited, and queued when it is on the
\* floor of the origin.
RECURSIVE expandNeighborsAnyFloor(_, _, _, _, _)
expandNeighborsAnyFloor(conns, path, bfsQueue, visited, fromFloor) ==
    IF conns = <<>> THEN [queue |-> bfsQueue, visited |-> visited]
    ELSE LET neighbor == Head(conns) IN
         IF neighbor \in visited
         THEN expandNeighborsAnyFloor(Tail(conns), path, bfsQueue, visited, fromFloor)
         ELSE expandNeighborsAnyFloor(Tail(conns), path,
                                      Append(bfsQueue, [location |-> neighbor,
                                                        path |-> Append(path, neighbor)]),
                                      visited \cup {neighbor}, fromFloor)

RECURSIVE expandNeighbors(_, _, _, _, _)
expandNeighbors(conns, path, bfsQueue, visited, fromFloor) ==
    IF conns = <<>> THEN [queue |-> bfsQueue, visited |-> visited]
    ELSE LET neighbor == Head(conns) IN
         IF neighbor \in visited
         THEN expandNeighbors(Tail(conns), path, bfsQueue, visited, fromFloor)
         ELSE LET onFloor == Exists(neighbor) /\ locations[neighbor].floor = fromFloor
                  nextQueue == IF onFloor
                               THEN Append(bfsQueue, [location |-> neighbor,
                                                      path |-> Append(path, neighbor)])
                               ELSE bfsQueue
              IN expandNeighbors(Tail(conns), path, nextQueue,
                                 visited \cup {neighbor}, fromFloor)

\* The while loop of findPath.
RECURSIVE searchLoop(_, _, _, _)
searchLoop(bfsQueue, visited, toLocation, fromFloor) ==
    IF bfsQueue = <<>> THEN <<>>
    ELSE LET head == Head(bfsQueue) IN
         IF head.location = toLocation THEN head.path
         ELSE LET conns == IF Exists(head.location)
                           THEN locations[head.location].connections ELSE <<>>
                  r == expandNeighbors(conns, head.path, Tail(bfsQueue), visited, fromFloor)
              IN searchLoop(r.queue, r.visited, toLocation, fromFloor)

\* The number of passes the while loop of findPath makes.
RECURSIVE searchPasses(_, _, _, _)
searchPasses(bfsQueue, visited, toLocation, fromFloor) ==
    IF bfsQueue = <<>> THEN 0
    ELSE LET head == Head(bfsQueue) IN
         IF head.location = toLocation THEN 1
         ELSE LET conns == IF Exists(head.location)
                           THEN locations[head.location].connections ELSE <<>>
                  r == expandNeighbors(conns, head.path, Tail(bfsQueue), visited, fromFloor)
              IN 1 + searchPasses(r.queue, r.visited, toLocation, fromFloor)

\* the passes findPath(fromLocation, toLocation) makes through its loop
findPathPasses(fromLocation, toLocation) ==
    IF ~Exists(fromLocation) \/ ~Exists(toLocation) THEN 0
    ELSE IF fromLocation = toLocation THEN 0
    ELSE IF locations[fromLocation].floor # locations[toLocation].floor THEN 0
    ELSE searchPasses(<<[location |-> fromLocation, path |-> <<fromLocation>>]>>,
                      {fromLocation}, toLocation, locations[fromLocation].floor)

\* findPath(fromLocation, toLocation)
findPath(fromLocation, toLocation) ==
    IF ~Exists(fromLocation) \/ ~Exists(toLocation) THEN <<>>
    ELSE IF fromLocation = toLocation THEN <<toLocation>>
    ELSE IF locations[fromLocation].floor # locations[toLocation].floor THEN <<>>
    ELSE searchLoop(<<[location |-> fromLocation, path |-> <<fromLocation>>]>>,
                    {fromLocation}, toLocation, locations[fromLocation].floor)

----------------------------------------------------------------------------
(* Movement.  The operators below take and return the mutable state they   *)
(* work on as a record w: cfg (agentsConfig), pos (agentPositions), jr     *)
(* (journey), log (entries appended to the log file) and req (the          *)
(* moveAgent calls made).                                                  *)

\* no external call was awaited
NoCalls == "none"

World == [cfg |-> agentsConfig, pos |-> agentPositions, jr |-> journey,
          log |-> <<>>, req |-> <<>>, ext |-> NoCalls]

\* slice(1)
slice1(path) == IF path = <<>> THEN <<>> ELSE Tail(path)

NoJourney == [route |-> <<>>, hops |-> 0]

\* The state moveAgent leaves when it returns `ok`: the call is noted in req,
\* with `busy` telling whether the agent was moving when the call was made.
Returned(w, agentName, ok, busy) ==
    [ok |-> ok,
     w |-> [w EXCEPT !.req = Append(w.req,
               [agent |-> agentName, ok |-> ok, busy |-> busy])]]

\* The early returns of moveAgent that come before the search: the agent is
\* already moving, is already at the target, or may not enter the target.
moveRefusedNoBusyCheck(w, agentName, target) ==
    \/ w.pos[agentName] = target
    \/ ~canAccessLocation(agentName, target)

moveRefusedNoAccessCheck(w, agentName, target) ==
    \/ w.cfg[agentName].isMoving
    \/ w.pos[agentName] = target

moveRefused(w, agentName, target) ==
    \/ w.cfg[agentName].isMoving
    \/ w.pos[agentName] = target
    \/ ~canAccessLocation(agentName, target)

\* The route moveAgent installs for pathResult.
installRouteWholePath(w, agentName, target, pathResult) ==
    [w EXCEPT !.cfg[agentName].isMoving = TRUE,
              !.cfg[agentName].movingTo = target,
              !.cfg[agentName].movementPath = slice1(pathResult),
              !.cfg[agentName].movementProgress = Len(pathResult),
              !.jr[agentName] = [route |-> slice1(pathResult), hops |-> 0]]

installRoute(w, agentName, target, pathResult) ==
    LET movementPath == slice1(pathResult) IN
    [w EXCEPT !.cfg[agentName].isMoving = TRUE,
              !.cfg[agentName].movingTo = target,
              !.cfg[agentName].movementPath = movementPath,
              !.cfg[agentName].movementProgress = Len(movementPath),
              !.jr[agentName] = [route |-> movementPath, hops |-> 0]]

\* moveAgent(agentName, target): [ok |-> the value returned, w |-> the state left]
moveAgent(w, agentName, target) ==
    IF agentName \notin DOMAIN w.cfg THEN Returned(w, agentName, FALSE, FALSE)
    ELSE LET busy == w.cfg[agentName].isMoving IN
         IF moveRefused(w, agentName, target) THEN Returned(w, agentName, FALSE, busy)
         ELSE LET pathResult == findPath(w.pos[agentName], target) IN
              IF Len(pathResult) = 0 THEN Returned(w, agentName, FALSE, busy)
              ELSE Returned(installRoute(w, agentName, target, pathResult),
                            agentName, TRUE, busy)

\* config.movementProgress = (config.movementProgress || 0) - 1
nextProgressNoDecrement(config) == config.movementProgress

nextProgress(config) == config.movementProgress - 1

\* config.movementProgress <= 0 || config.movementPath.length === 0, after the shift
hasArrivedOneEarly(progress, shifted) == progress <= 1 \/ Len(shifted) = 0

hasArrived(progress, shifted) == progress <= 0 \/ Len(shifted) = 0

\* fs.appendFileSync(LOG_PATH, logEntry) of updateMovement: the entry
\* 'arrive a <destination>', noted with the hops the journey took
appendArrivalTwice(log, agentName, destination, hops) ==
    log \o <<[agent |-> agentName, arrive |-> destination, hops |-> hops],
             [agent |-> agentName, arrive |-> destination, hops |-> hops]>>

appendArrival(log, agentName, destination, hops) ==
    Append(log, [agent |-> agentName, arrive |-> destination, hops |-> hops])

\* updateMovement(agentName).  movementPath is set together with isMoving
\* (moveAgent) and cleared together with it (arrival), so the guard
\* `!config.movementPath` adds nothing to `!config.isMoving`.
updateMovement(w, agentName) ==
    IF agentName \notin DOMAIN w.cfg \/ ~w.cfg[agentName].isMoving THEN w
    ELSE LET config == w.cfg[agentName]
             shifted == slice1(config.movementPath)
             hopped == IF config.movementPath # <<>>
                       THEN [w.pos EXCEPT ![agentName] = Head(config.movementPath)]
                       ELSE w.pos
             progress == nextProgress(config)
         IN IF hasArrived(progress, shifted)
            THEN [w EXCEPT
                    !.pos = [hopped EXCEPT ![agentName] = config.movingTo],
                    !.cfg[agentName].isMoving = FALSE,
                    !.cfg[agentName].movingTo = NoTarget,
                    !.cfg[agentName].movementPath = <<>>,
                    !.cfg[agentName].movementProgress = 0,
                    !.jr[agentName] = NoJourney,
                    !.log = appendArrival(w.log, agentName, config.movingTo,
                                          w.jr[agentName].hops + 1)]
            ELSE [w EXCEPT
                    !.pos = hopped,
                    !.cfg[agentName].movementPath = shifted,
                    !.cfg[agentName].movementProgress = progress,
                    !.jr[agentName].hops = w.jr[agentName].hops + 1]

\* shouldGoSmoke(agentName) can return true (it then does so by a random draw)
canGoSmokeEarly(w, agentName) ==
    /\ w.cfg[agentName].isSmoker
    /\ tickCounter - w.cfg[agentName].lastSmoke >= SMOKING_INTERVAL - 1

canGoSmoke(w, agentName) ==
    /\ w.cfg[agentName].isSmoker
    /\ tickCounter - w.cfg[agentName].lastSmoke >= SMOKING_INTERVAL

\* handleSmoking(agentName)
handleSmokingStampOnSuccess(w, agentName) ==
    LET moved == moveAgent(w, agentName, SmokingArea)
    IN IF moved.ok THEN [moved.w EXCEPT !.cfg[agentName].lastSmoke = tickCounter]
       ELSE moved.w

handleSmoking(w, agentName) ==
    LET moved == moveAgent(w, agentName, SmokingArea).w
    IN [moved EXCEPT !.cfg[agentName].lastSmoke = tickCounter]

----------------------------------------------------------------------------
(* Agent management commands *)

\* fireAgent(agentName)
fireAgentDropsRoute(cfg, agentName) ==
    IF agentName \notin DOMAIN cfg THEN cfg
    ELSE [cfg EXCEPT ![agentName].isActive = FALSE,
                     ![agentName].isMoving = FALSE,
                     ![agentName].movingTo = NoTarget,
                     ![agentName].movementPath = <<>>,
                     ![agentName].movementProgress = 0]

fireAgent(cfg, agentName) ==
    IF agentName \notin DOMAIN cfg THEN cfg
    ELSE [cfg EXCEPT ![agentName].isActive = FALSE]

\* rehireAgent(agentName)
rehireAgent(cfg, agentName) ==
    IF agentName \notin DOMAIN cfg THEN cfg
    ELSE [cfg EXCEPT ![agentName].isActive = TRUE]

\* setSmokerStatus(agentName, isSmoker)
setSmokerStatus(cfg, agentName, isSmoker) ==
    IF agentName \notin DOMAIN cfg THEN cfg
    ELSE [cfg EXCEPT ![agentName].isSmoker = isSmoker]

\* the names of the locations in the order of hotel.json
LocationOrder ==
    <<"lobby", "hall_1", "room_a1", "room_a2", "room_a3", "gym", "outside_smoking_area",
      "hall_2", "bar", "pool", "spa", "rooftop_terrace">>

\* Object.keys(hotelContext.locations)
locationKeys == SelectSeq(LocationOrder, LAMBDA loc : loc \in DOMAIN locations)

\* what find returns when no element matches
NoRoom == "undefined"

\* previousOwner: the first location of hotel.json owned by the agent
previousOwner(agentName) ==
    LET owned == SelectSeq(locationKeys, LAMBDA loc : locations[loc].owner = agentName)
    IN IF owned = <<>> THEN NoRoom ELSE Head(owned)

\* what assignRoom leaves once its tests have passed
giveRoomKeepsOld(agentName, roomName) ==
    [locations EXCEPT ![roomName].owner = agentName, ![roomName].is_locked = TRUE]

giveRoom(agentName, roomName) ==
    LET previous == previousOwner(agentName)
        released == IF previous # NoRoom
                    THEN [locations EXCEPT ![previous].owner = NoOwner,
                                           ![previous].is_locked = FALSE]
                    ELSE locations
    IN [released EXCEPT ![roomName].owner = agentName, ![roomName].is_locked = TRUE]

\* assignRoom(agentName, roomName): the locations left
assignRoomAnyRoom(agentName, roomName) ==
    IF agentName \notin DOMAIN agentsConfig THEN locations
    ELSE IF ~Exists(roomName) THEN locations
    ELSE giveRoom(agentName, roomName)

assignRoom(agentName, roomName) ==
    IF agentName \notin DOMAIN agentsConfig THEN locations
    ELSE IF ~Exists(roomName) THEN locations
    ELSE IF ~locations[roomName].is_private_room THEN locations
    ELSE giveRoom(agentName, roomName)

----------------------------------------------------------------------------
(* Agent selection *)

\* Object.keys(cfg): the names of the roster in the order of agents-config.json
KeyOrder(cfg) == SelectSeq(RosterOrder, LAMBDA name : name \in DOMAIN cfg)

\* getActiveAgents()
getActiveAgentsAll(cfg) == KeyOrder(cfg)

getActiveAgents(cfg) == SelectSeq(KeyOrder(cfg), LAMBDA name : cfg[name].isActive)

Min(a, b) == IF a < b THEN a ELSE b

\* the values `count` is drawn from
Counts == {5, 3, 2}

\* tickCounter % activeAgents.length
rotationOffsetNone(tc, n) == 0

rotationOffset(tc, n) == tc % n

\* [...activeAgents.slice(rotationOffset), ...activeAgents.slice(0, rotationOffset)]
rotate(activeAgents, offset) ==
    SubSeq(activeAgents, offset + 1, Len(activeAgents)) \o SubSeq(activeAgents, 1, offset)

RECURSIVE pickBackwards(_, _, _)
pickBackwards(rotated, keep, i) ==
    IF i > Len(rotated) THEN <<>>
    ELSE IF i \in keep THEN pickBackwards(rotated, keep, i + 1) \o <<rotated[i]>>
    ELSE pickBackwards(rotated, keep, i + 1)

RECURSIVE pick(_, _, _)
\* the elements of rotated[i..n] whose draw `Math.random() > 0.3` succeeded
pick(rotated, keep, i) ==
    IF i > Len(rotated) THEN <<>>
    ELSE IF i \in keep THEN <<rotated[i]>> \o pick(rotated, keep, i + 1)
    ELSE pick(rotated, keep, i + 1)

\* if (selected.length === 0) selected.push(rotated[0])
orFirstNever(selected, rotated) == selected

orFirst(selected, rotated) == IF Len(selected) = 0 THEN <<rotated[1]>> ELSE selected

\* selectAgentsForTick() once `count` is drawn: every list the draws of the
\* loop can produce at tick `tc`
selectWithCount(cfg, tc, count) ==
    LET activeAgents == getActiveAgents(cfg) IN
    IF Len(activeAgents) = 0 THEN {<<>>}
    ELSE LET rotated == rotate(activeAgents, rotationOffset(tc, Len(activeAgents)))
         IN { orFirst(pick(rotated, keep, 1), rotated) :
                 keep \in SUBSET (1..Min(count, Len(rotated))) }

\* selectAgentsForTick(): every list the random draws can produce at tick `tc`
selectAgentsForTick(cfg, tc) == UNION { selectWithCount(cfg, tc, count) : count \in Counts }

\* tickCounter++
nextTickTwice(tc) == tc + 2

nextTick(tc) == tc + 1

----------------------------------------------------------------------------
(* The tick loop.  pc is "idle" between two ticks, "run" while tick() runs  *)
(* synchronous code, and "awaitMove", "awaitTurn", "awaitSleep" while it is *)
(* suspended on postMovementToDiscord, on the dialogue call and webhook    *)
(* post, and on the delay between two agents.                              *)

Suspended == pc \in {"idle", "awaitMove", "awaitTurn", "awaitSleep"}

\* the stdin handler is entered
Typed ==
    /\ Suspended
    /\ commands < MaxCommands
    /\ commands' = commands + 1

NoLocation == "none"

Install(w) ==
    /\ agentsConfig' = w.cfg
    /\ agentPositions' = w.pos
    /\ journey' = w.jr
    /\ logged' = w.log
    /\ requests' = w.req
    /\ external' = w.ext

\* `continue`, or the end of the loop body when no delay follows
NextAgent ==
    /\ queue' = Tail(queue)
    /\ pc' = IF Tail(queue) = <<>> THEN "idle" ELSE "run"

\* tick(): tickCounter++ and selectAgentsForTick()
TickBegin ==
    /\ pc = "idle"
    /\ tickCounter < MaxTick
    /\ tickCounter' = nextTick(tickCounter)
    /\ \E selected \in selectAgentsForTick(agentsConfig, nextTick(tickCounter)) :
          /\ queue' = selected
          /\ pc' = IF selected = <<>> THEN "idle" ELSE "run"
          /\ selections' = [ticks |-> selections.ticks + 1, none |-> selected = <<>>]
    /\ logged' = <<>>
    /\ requests' = <<>>
    /\ external' = NoCalls
    /\ UNCHANGED <<fileVars, hotelContext, commands, agentsConfig, agentPositions, turnLocation, journey, callVars>>

\* Math.round((done / total) * 100) for integers done >= 0 and total > 0
roundPercent(done, total) == (200 * done + total) \div (2 * total)

\* `progress`, the percentage tick() passes to postMovementToDiscord for an
\* agent that is still moving after its hop, `config` being its entry then
progress(config) ==
    LET stepsRemaining == Len(config.movementPath)
        totalSteps == config.movementProgress
    IN IF totalSteps > 0 THEN roundPercent(totalSteps - stepsRemaining, totalSteps) ELSE 0

\* the loop body ends after the hop: the agent was moving and, with `config`
\* its entry after updateMovement, still is
stillMovingNever(wasMoving, config) == FALSE

stillMoving(wasMoving, config) == wasMoving /\ config.isMoving

\* tick(): the loop body for the next selected agent, up to its first await
\* or `continue`.  goSmoke is the draw of shouldGoSmoke, promptExists the
\* existence of agents/<agent>.md.
ProcessAgent ==
    /\ pc = "run"
    /\ queue # <<>>
    /\ LET agent == Head(queue)
           wasMoving == agentsConfig[agent].isMoving
           w1 == IF wasMoving THEN updateMovement(World, agent) ELSE World
       IN IF stillMoving(wasMoving, w1.cfg[agent])
          THEN /\ Install(w1)
               /\ pc' = "awaitMove"
               /\ UNCHANGED <<queue, turnLocation>>
          ELSE \E goSmoke \in BOOLEAN, promptExists \in BOOLEAN :
               LET w2 == IF goSmoke /\ canGoSmoke(w1, agent)
                         THEN handleSmoking(w1, agent) ELSE w1
               IN /\ Install(w2)
                  /\ IF promptExists
                     THEN /\ turnLocation' = w2.pos[agent]
                          /\ pc' = "awaitTurn"
                          /\ UNCHANGED queue
                     ELSE /\ NextAgent
                          /\ UNCHANGED turnLocation
    /\ UNCHANGED <<fileVars, hotelContext, tickCounter, commands, callVars, selections>>

\* How the external calls awaited by tick() can end.  An error of
\* anthropic.messages.create is caught by generateAgentResponse, which then
\* returns "Bon."; an error of axios.post is caught and dropped by
\* postMovementToDiscord and postToDiscordWebhook.
Outcomes == {"returned", "failed"}

\* postMovementToDiscord returned, with the post made or failed: `continue`
MovementPosted ==
    /\ pc = "awaitMove"
    /\ NextAgent
    /\ logged' = <<>>
    /\ requests' = <<>>
    /\ \E outcome \in Outcomes : external' = outcome
    /\ UNCHANGED <<fileVars, hotelContext, commands, agentsConfig, agentPositions, tickCounter, turnLocation,
                   journey, callVars, selections>>

\* floor1Locations of the return from the smoking area
returnLocations(agent) ==
    {loc \in DOMAIN locations : locations[loc].floor = 1 /\ canAccessLocation(agent, loc)}

\* the test of the return from the smoking area, made once the dialogue
\* call and the webhook post have ended with `outcome`; goBack is the draw
\* `Math.random() > 0.6`
returnsFromSmokingUnlessFailed(location, goBack, outcome) ==
    location = SmokingArea /\ goBack /\ outcome # "failed"

returnsFromSmoking(location, goBack, outcome) ==
    location = SmokingArea /\ goBack

\* the states the rest of the loop body can leave for `agent` once goBack
\* is drawn, randomLoc being any of floor1Locations
TurnResult(agent, outcome, goBack) ==
    IF returnsFromSmoking(turnLocation, goBack, outcome) /\ returnLocations(agent) # {}
    THEN {moveAgent(World, agent, randomLoc).w : randomLoc \in returnLocations(agent)}
    ELSE {World}

\* the states the rest of the loop body can leave for `agent`
TurnResults(agent, outcome) ==
    UNION {TurnResult(agent, outcome, goBack) : goBack \in BOOLEAN}

\* the dialogue call and the webhook post ended with `outcome`: the rest of
\* the loop body
TurnDone ==
    /\ pc = "awaitTurn"
    /\ \E outcome \in Outcomes, goBack \in BOOLEAN :
          \E w \in TurnResult(Head(queue), outcome, goBack) :
             Install([w EXCEPT !.ext = outcome])
    /\ queue' = Tail(queue)
    /\ pc' = IF Tail(queue) = <<>> THEN "idle" ELSE "awaitSleep"
    /\ turnLocation' = NoLocation
    /\ UNCHANGED <<fileVars, hotelContext, tickCounter, commands, callVars, selections>>

\* the delay between two agents of a tick is over
SleepDone ==
    /\ pc = "awaitSleep"
    /\ pc' = "run"
    /\ logged' = <<>>
    /\ requests' = <<>>
    /\ external' = NoCalls
    /\ UNCHANGED <<fileVars, hotelContext, commands, agentsConfig, agentPositions, tickCounter, queue,
                   turnLocation, journey, callVars, selections>>

----------------------------------------------------------------------------
(* The console: process.stdin.on("data"), which runs whenever tick() is    *)
(* suspended or between two ticks.                                         *)

\* move <agent> <location>
CmdMove(agentName, target) ==
    /\ Typed
    /\ Install(moveAgent(World, agentName, target).w)
    /\ UNCHANGED <<fileVars, hotelContext, tickCounter, pc, queue, turnLocation, callVars, selections>>

\* fire <agent>
CmdFire(agentName) ==
    /\ Typed
    /\ agentsConfig' = fireAgent(agentsConfig, agentName)
    /\ logged' = <<>>
    /\ requests' = <<>>
    /\ external' = NoCalls
    /\ UNCHANGED <<fileVars, hotelContext, agentPositions, tickCounter, pc, queue, turnLocation,
                   journey, callVars, selections>>

\* rehire <agent>
CmdRehire(agentName) ==
    /\ Typed
    /\ agentsConfig' = rehireAgent(agentsConfig, agentName)
    /\ logged' = <<>>
    /\ requests' = <<>>
    /\ external' = NoCalls
    /\ UNCHANGED <<fileVars, hotelContext, agentPositions, tickCounter, pc, queue, turnLocation,
                   journey, callVars, selections>>

\* smoker <agent> <true|false>
CmdSmoker(agentName, isSmoker) ==
    /\ Typed
    /\ agentsConfig' = setSmokerStatus(agentsConfig, agentName, isSmoker)
    /\ logged' = <<>>
    /\ requests' = <<>>
    /\ external' = NoCalls
    /\ UNCHANGED <<fileVars, hotelContext, agentPositions, tickCounter, pc, queue, turnLocation,
                   journey, callVars, selections>>

\* room <agent> <room>
CmdRoom(agentName, roomName) ==
    /\ Typed
    /\ hotelContext' = assignRoom(agentName, roomName)
    /\ logged' = <<>>
    /\ requests' = <<>>
    /\ external' = NoCalls
    /\ UNCHANGED <<fileVars, agentsConfig, agentPositions, tickCounter, pc, queue, turnLocation,
                   journey, callVars, selections>>

----------------------------------------------------------------------------
(* Startup *)

NoCall == [fn |-> "none", agent |-> "", from |-> "", to |-> "", path |-> <<>>, ok |-> FALSE,
           changed |-> FALSE]

Idle == [isMoving |-> FALSE, movingTo |-> NoTarget, movementPath |-> <<>>,
         movementProgress |-> 0]

\* the last `n` elements of path, for every n from 1 to MaxSavedHops
Suffixes(path) ==
    {SubSeq(path, k, Len(path)) : k \in {i \in 1..Len(path) : Len(path) - i < MaxSavedHops}}

\* The movement fields saveAgentsConfig can have left in agents-config.json:
\* none, or those of a journey moveAgent installed and updateMovement
\* advanced until at most MaxSavedHops hops were left.
SavedMovement(agentName) ==
    {Idle} \cup
    UNION { { [isMoving |-> TRUE, movingTo |-> target, movementPath |-> rest,
               movementProgress |-> Len(rest)] :
                 rest \in Suffixes(slice1(findPath(from, target))) } :
            from \in DOMAIN locations,
            target \in {t \in DOMAIN locations : canAccessLocation(agentName, t)} }

\* jobs.json as loadJobs reads it: job id -> job, of which the location
jobs == [receptionist |-> [location |-> "lobby"], guest |-> [location |-> "any"]]

\* One entry of agents-config.json as loadAgentsConfig reads it, with the
\* job loadAgentsConfig gives by default
Loaded(isSmoker, isActive, lastSmoke, movement) ==
    [isSmoker |-> isSmoker,
     job |-> "guest",
     isActive |-> isActive,
     lastSmoke |-> lastSmoke,
     isMoving |-> movement.isMoving,
     movingTo |-> movement.movingTo,
     movementPath |-> movement.movementPath,
     movementProgress |-> movement.movementProgress]

\* The state when the main loop starts: hotel.json and agents-config.json
\* loaded, at least one active agent (the process exits otherwise), a
\* position stored for every active agent and for no other.  The files
\* drawn: the private room owned by Louis or by nobody; Louis a non-smoker (drawn as
\* lastSmoke -1, stored as 0) or a smoker that last smoked at tick 0 or
\* MaxSavedSmoke, with any saved movement, the receptionist; Fred a guest, a
\* non-smoker never moved.
Init ==
    /\ \E owner \in {"Louis", NoOwner} : hotelContext = HotelMain(owner)
    /\ \E louis \in {Loaded(lastSmoke >= 0, isActive, IF lastSmoke >= 0 THEN lastSmoke ELSE 0,
                              movement) :
                       isActive \in BOOLEAN,
                       lastSmoke \in {-1, 0, MaxSavedSmoke},
                       movement \in SavedMovement("Louis")},
          fred \in {Loaded(FALSE, isActive, 0, Idle) : isActive \in BOOLEAN} :
          /\ louis.isActive \/ fred.isActive
          /\ agentsConfig = [a \in Agents |->
                               IF a = "Louis" THEN [louis EXCEPT !.job = "receptionist"]
                               ELSE fred]
    /\ agentPositions = [a \in Agents |->
                            IF agentsConfig[a].isActive THEN ObjectPosition ELSE NoPosition]
    /\ journey = [a \in Agents |->
                    IF agentsConfig[a].isMoving
                    THEN [route |-> agentsConfig[a].movementPath, hops |-> 0]
                    ELSE NoJourney]
    /\ tickCounter = 0
    /\ pc = "idle"
    /\ queue = <<>>
    /\ turnLocation = NoLocation
    /\ logged = <<>>
    /\ requests = <<>>
    /\ external = NoCalls
    /\ commands = 0
    /\ lastCall = NoCall
    /\ agentsConfigFile = NotFollowed
    /\ managed = NoChange
    /\ selections = [ticks |-> 0, none |-> FALSE]

\* room names typed at the console: a private room, a location that is not
\* one and an unknown name
RoomNames == {"room_a1", "gym", "sauna"}

\* the arguments typed after an agent name: every value in `values` for an
\* agent of agents-config.json, one of them for a name that is not
Typable(agentName, values, one) == IF agentName \in Agents THEN values ELSE {one}

Next ==
    \/ TickBegin
    \/ ProcessAgent
    \/ MovementPosted
    \/ TurnDone
    \/ SleepDone
    \/ \E agentName \in AgentNames :
          \E target \in Typable(agentName, DOMAIN locations \cup {"sauna"}, "lobby") :
             CmdMove(agentName, target)
    \/ \E agentName \in AgentNames : CmdFire(agentName)
    \/ \E agentName \in AgentNames : CmdRehire(agentName)
    \/ \E agentName \in AgentNames :
          \E isSmoker \in Typable(agentName, BOOLEAN, TRUE) : CmdSmoker(agentName, isSmoker)
    \/ \E agentName \in AgentNames :
          \E roomName \in Typable(agentName, RoomNames, "room_a1") :
             CmdRoom(agentName, roomName)

Spec == Init /\ [][Next]_vars

----------------------------------------------------------------------------
(* Function harness: findPath, canAccessLocation and moveAgent applied     *)
(* once to drawn arguments on a drawn hotel.json.                          *)

\* What the request asks for, decided on the location graph alone: the
\* floor-and-access restricted graph of the agent.
Enterable(agentName) ==
    {l \in DOMAIN locations : ~locations[l].is_private_room \/ locations[l].owner = agentName}

Step(agentName, from) ==
    {l \in Enterable(agentName) :
        /\ locations[l].floor = locations[from].floor
        /\ \E i \in 1..Len(locations[from].connections) : locations[from].connections[i] = l}

RECURSIVE Distance(_, _, _, _, _)
\* hops from the frontier to `to` in the restricted graph, -1 when there is none
Distance(agentName, frontier, seen, to, d) ==
    IF to \in frontier THEN d
    ELSE LET next == UNION {Step(agentName, l) : l \in frontier} \ seen
         IN IF next = {} THEN -1
            ELSE Distance(agentName, next, seen \cup next, to, d + 1)

Dist(agentName, from, to) ==
    IF from \notin Enterable(agentName) \/ to \notin Enterable(agentName) THEN -1
    ELSE Distance(agentName, {from}, {from}, to, 0)

RequestKind(agentName, from, to) ==
    IF ~Exists(from) \/ ~Exists(to) THEN "NotFound"
    ELSE IF locations[from].floor # locations[to].floor THEN "CrossFloor"
    ELSE IF Dist(agentName, from, to) < 0 THEN "Unreachable"
    ELSE "Reachable"

\* findPath(from, to), called for agentName
CallFindPath(agentName, from, to) ==
    /\ lastCall = NoCall
    /\ lastCall' = [fn |-> "findPath", agent |-> agentName, from |-> from, to |-> to,
                    path |-> findPath(from, to), ok |-> FALSE, changed |-> FALSE]
    /\ UNCHANGED <<fileVars, hotelContext, simVars, selections>>

\* canAccessLocation(agentName, location)
CallCanAccess(agentName, location) ==
    /\ lastCall = NoCall
    /\ lastCall' = [fn |-> "canAccessLocation", agent |-> agentName, from |-> "",
                    to |-> location, path |-> <<>>,
                    ok |-> canAccessLocation(agentName, location), changed |-> FALSE]
    /\ UNCHANGED <<fileVars, hotelContext, simVars, selections>>

\* the state in which moveAgent(agentName, target) is called: every agent
\* idle, agentName (when it is an agent of agents-config.json) at `from`
WorldFrom(agentName, from) ==
    IF agentName \in DOMAIN agentPositions
    THEN [World EXCEPT !.pos[agentName] = from]
    ELSE World

\* the value moveAgent(agentName, target) returns for an idle agent at `from`
moveAgentFrom(agentName, from, target) ==
    moveAgent(WorldFrom(agentName, from), agentName, target)

\* moveAgent(agentName, target) for an idle agent standing at `from`;
\* `changed` tells whether the call left agentsConfig or agentPositions
\* different from what it found
CallMoveAgent(agentName, from, target) ==
    /\ lastCall = NoCall
    /\ LET entry == WorldFrom(agentName, from)
           result == moveAgentFrom(agentName, from, target)
       IN lastCall' = [fn |-> "moveAgent", agent |-> agentName, from |-> from, to |-> target,
                       path |-> IF agentName \in DOMAIN result.w.cfg
                                THEN result.w.cfg[agentName].movementPath
                                ELSE <<>>,
                       ok |-> result.ok,
                       changed |-> result.w.cfg # entry.cfg \/ result.w.pos # entry.pos]
    /\ UNCHANGED <<fileVars, hotelContext, simVars, selections>>

InitPath ==
    /\ \E owner \in Owners : hotelContext \in {HotelMain(owner), HotelOneWay(owner)}
    /\ agentsConfig = [a \in Agents |-> Loaded(FALSE, TRUE, 0, Idle)]
    /\ agentPositions = [a \in Agents |-> ObjectPosition]
    /\ journey = [a \in Agents |-> NoJourney]
    /\ tickCounter = 0
    /\ pc = "idle"
    /\ queue = <<>>
    /\ turnLocation = NoLocation
    /\ logged = <<>>
    /\ requests = <<>>
    /\ external = NoCalls
    /\ commands = 0
    /\ lastCall = NoCall
    /\ agentsConfigFile = NotFollowed
    /\ managed = NoChange
    /\ selections = [ticks |-> 0, none |-> FALSE]

NextPath ==
    \/ \E agentName \in Agents, from \in LocationNames, to \in LocationNames :
          CallFindPath(agentName, from, to)
    \/ \E agentName \in Agents, location \in LocationNames :
          CallCanAccess(agentName, location)
    \/ \E agentName \in AgentNames, from \in LocationNames, to \in LocationNames :
          CallMoveAgent(agentName, from, to)

SpecPath == InitPath /\ [][NextPath]_vars

----------------------------------------------------------------------------
(* assignRoom called any number of times on a hotel with three private     *)
(* rooms.                                                                  *)

\* the locations owned by the agent
roomsOf(agentName) == {loc \in DOMAIN locations : locations[loc].owner = agentName}

\* assignRoom(agentName, roomName); lastCall notes the room the agent owned
\* before (from), the value returned (ok) and whether a location changed
CallAssignRoom(agentName, roomName) ==
    /\ hotelContext' = assignRoom(agentName, roomName)
    /\ lastCall' = [fn |-> "assignRoom", agent |-> agentName,
                    from |-> previousOwner(agentName), to |-> roomName, path |-> <<>>,
                    ok |-> /\ agentName \in DOMAIN agentsConfig
                           /\ Exists(roomName)
                           /\ locations[roomName].is_private_room,
                    changed |-> assignRoom(agentName, roomName) # locations]
    /\ UNCHANGED <<fileVars, simVars, selections>>

\* hotel.json with every agent owning at most one room
InitRooms ==
    /\ \E owner1 \in Owners, owner2 \in Owners, owner3 \in Owners :
          /\ hotelContext = HotelRooms(owner1, owner2, owner3)
          /\ \A a \in Agents : Cardinality(roomsOf(a)) <= 1
    /\ agentsConfig = [a \in Agents |-> Loaded(FALSE, TRUE, 0, Idle)]
    /\ agentPositions = [a \in Agents |-> ObjectPosition]
    /\ journey = [a \in Agents |-> NoJourney]
    /\ tickCounter = 0
    /\ pc = "idle"
    /\ queue = <<>>
    /\ turnLocation = NoLocation
    /\ logged = <<>>
    /\ requests = <<>>
    /\ external = NoCalls
    /\ commands = 0
    /\ lastCall = NoCall
    /\ agentsConfigFile = NotFollowed
    /\ managed = NoChange
    /\ selections = [ticks |-> 0, none |-> FALSE]

NextRooms ==
    \E agentName \in AgentNames, roomName \in DOMAIN locations \cup {"sauna"} :
       CallAssignRoom(agentName, roomName)

SpecRooms == InitRooms /\ [][NextRooms]_vars

----------------------------------------------------------------------------
(* agents-config.json shared by the running simulation and manage.ts.      *)
(* The simulation reads the file once, at startup, and writes the whole of *)
(* agentsConfig on every save; each run of manage.ts reads the file,       *)
(* changes one entry and writes the file.                                  *)

\* job ids given to manage.ts: two of jobs.json and an unknown one
JobIds == {"receptionist", "guest", "pilot"}

\* manage.ts: loadConfigs() when the process starts
loadConfigs == agentsConfigFile

\* manage.ts: what the run has changed, noted when saveConfig() is reached
Changed(cmd, agentName, jobId, flag) ==
    [cmd |-> cmd, agent |-> agentName, job |-> jobId, flag |-> flag]

\* manage.ts add <name> <male|female> [job] [smoker]
ManageAdd(name, job, isSmoker) ==
    /\ name \notin DOMAIN loadConfigs
    /\ job \in DOMAIN jobs
    /\ agentsConfigFile' =
          [a \in DOMAIN loadConfigs \cup {name} |->
              IF a = name THEN [Loaded(isSmoker, TRUE, 0, Idle) EXCEPT !.job = job]
              ELSE loadConfigs[a]]
    /\ managed' = Changed("add", name, job, isSmoker)
    /\ UNCHANGED <<hotelContext, simVars, callVars, selections>>

\* manage.ts remove <name>
ManageRemove(name) ==
    /\ name \in DOMAIN loadConfigs
    /\ agentsConfigFile' = [a \in DOMAIN loadConfigs \ {name} |-> loadConfigs[a]]
    /\ managed' = Changed("remove", name, "", FALSE)
    /\ UNCHANGED <<hotelContext, simVars, callVars, selections>>

\* manage.ts assign <name> <job>
ManageAssign(agentName, jobId) ==
    /\ agentName \in DOMAIN loadConfigs
    /\ jobId \in DOMAIN jobs
    /\ agentsConfigFile' = [loadConfigs EXCEPT ![agentName].job = jobId]
    /\ managed' = Changed("assign", agentName, jobId, FALSE)
    /\ UNCHANGED <<hotelContext, simVars, callVars, selections>>

\* manage.ts smoker <name> <true|false>
ManageSmoker(agentName, isSmoker) ==
    /\ agentName \in DOMAIN loadConfigs
    /\ agentsConfigFile' = [loadConfigs EXCEPT ![agentName].isSmoker = isSmoker]
    /\ managed' = Changed("smoker", agentName, "", isSmoker)
    /\ UNCHANGED <<hotelContext, simVars, callVars, selections>>

\* manage.ts activate <name> and deactivate <name>
ManageActive(agentName, isActive) ==
    /\ agentName \in DOMAIN loadConfigs
    /\ agentsConfigFile' = [loadConfigs EXCEPT ![agentName].isActive = isActive]
    /\ managed' = Changed("active", agentName, "", isActive)
    /\ UNCHANGED <<hotelContext, simVars, callVars, selections>>

\* the simulation: saveAgentsConfig() at the end of a command that found
\* its agent
saveAgentsConfig(agentName) ==
    agentsConfigFile' = IF agentName \in DOMAIN agentsConfig THEN agentsConfig'
                        ELSE agentsConfigFile

\* the simulation's console: fire <agent>
SimFire(agentName) ==
    /\ agentsConfig' = fireAgent(agentsConfig, agentName)
    /\ saveAgentsConfig(agentName)
    /\ UNCHANGED <<hotelContext, agentPositions, tickCounter, pc, queue, turnLocation, logged,
                   requests, external, commands, journey, callVars, selections, managed>>

\* the simulation's console: rehire <agent>
SimRehire(agentName) ==
    /\ agentsConfig' = rehireAgent(agentsConfig, agentName)
    /\ saveAgentsConfig(agentName)
    /\ UNCHANGED <<hotelContext, agentPositions, tickCounter, pc, queue, turnLocation, logged,
                   requests, external, commands, journey, callVars, selections, managed>>

\* the simulation's console: smoker <agent> <true|false>
SimSmoker(agentName, isSmoker) ==
    /\ agentsConfig' = setSmokerStatus(agentsConfig, agentName, isSmoker)
    /\ saveAgentsConfig(agentName)
    /\ UNCHANGED <<hotelContext, agentPositions, tickCounter, pc, queue, turnLocation, logged,
                   requests, external, commands, journey, callVars, selections, managed>>

\* the simulation started on an agents-config.json of two guests, the file
\* as loadAgentsConfig found it
InitFile ==
    /\ hotelContext = HotelMain(NoOwner)
    /\ agentsConfig = [a \in Agents |-> Loaded(FALSE, TRUE, 0, Idle)]
    /\ agentsConfigFile = agentsConfig
    /\ managed = NoChange
    /\ agentPositions = [a \in Agents |-> ObjectPosition]
    /\ journey = [a \in Agents |-> NoJourney]
    /\ tickCounter = 0
    /\ pc = "idle"
    /\ queue = <<>>
    /\ turnLocation = NoLocation
    /\ logged = <<>>
    /\ requests = <<>>
    /\ external = NoCalls
    /\ commands = 0
    /\ lastCall = NoCall
    /\ selections = [ticks |-> 0, none |-> FALSE]

NextFile ==
    \/ \E name \in AgentNames, job \in JobIds, isSmoker \in BOOLEAN : ManageAdd(name, job, isSmoker)
    \/ \E name \in AgentNames : ManageRemove(name)
    \/ \E agentName \in AgentNames, jobId \in JobIds : ManageAssign(agentName, jobId)
    \/ \E agentName \in AgentNames, isSmoker \in BOOLEAN : ManageSmoker(agentName, isSmoker)
    \/ \E agentName \in AgentNames, isActive \in BOOLEAN : ManageActive(agentName, isActive)
    \/ \E agentName \in AgentNames : SimFire(agentName)
    \/ \E agentName \in AgentNames : SimRehire(agentName)
    \/ \E agentName \in AgentNames, isSmoker \in BOOLEAN : SimSmoker(agentName, isSmoker)

SpecFile == InitFile /\ [][NextFile]_vars

----------------------------------------------------------------------------
(* The tick loop run for ever, for what eventually happens.  No agent here *)
(* is a smoker and none is made one, so tickCounter is read by             *)
(* selectAgentsForTick alone, as tickCounter % activeAgents.length, and is *)
(* kept modulo TickPeriod, a multiple of every number of active agents.    *)

TickPeriod == Cardinality(Agents)

\* the agents selected for the tick that begins
Selected(a) == \E i \in 1..Len(queue) : queue[i] = a

\* tick(): tickCounter++ and selectAgentsForTick()
TickBeginLive ==
    /\ pc = "idle"
    /\ tickCounter' = nextTick(tickCounter) % TickPeriod
    /\ \E selected \in selectAgentsForTick(agentsConfig, nextTick(tickCounter)) :
          /\ queue' = selected
          /\ pc' = IF selected = <<>> THEN "idle" ELSE "run"
    /\ logged' = <<>>
    /\ requests' = <<>>
    /\ external' = NoCalls
    /\ UNCHANGED <<fileVars, hotelContext, commands, agentsConfig, agentPositions, turnLocation,
                   journey, callVars, selections>>

\* The state when the main loop starts, as in Init, with no smoker and
\* every agent active: Louis with any saved movement, owner of the private
\* room.
InitLive ==
    /\ hotelContext = HotelMain("Louis")
    /\ \E louis \in {Loaded(FALSE, TRUE, 0, movement) : movement \in SavedMovement("Louis")},
          fred \in {Loaded(FALSE, TRUE, 0, Idle)} :
          /\ agentsConfig = [a \in Agents |->
                               IF a = "Louis" THEN [louis EXCEPT !.job = "receptionist"]
                               ELSE fred]
    /\ agentPositions = [a \in Agents |->
                            IF agentsConfig[a].isActive THEN ObjectPosition ELSE NoPosition]
    /\ journey = [a \in Agents |->
                    IF agentsConfig[a].isMoving
                    THEN [route |-> agentsConfig[a].movementPath, hops |-> 0]
                    ELSE NoJourney]
    /\ tickCounter = 0
    /\ pc = "idle"
    /\ queue = <<>>
    /\ turnLocation = NoLocation
    /\ logged = <<>>
    /\ requests = <<>>
    /\ external = NoCalls
    /\ commands = 0
    /\ lastCall = NoCall
    /\ agentsConfigFile = NotFollowed
    /\ managed = NoChange
    /\ selections = [ticks |-> 0, none |-> FALSE]

\* the locations typed at the console: one at two hops from every other
\* location of its floor, the private room and a location of another floor
Targets == {"gym", "room_a1", "hall_2"}

NextLive ==
    \/ TickBeginLive
    \/ ProcessAgent
    \/ MovementPosted
    \/ TurnDone
    \/ SleepDone
    \/ \E agentName \in Agents, target \in Targets : CmdMove(agentName, target)
    \/ \E agentName \in Agents : CmdFire(agentName)
    \/ \E agentName \in Agents : CmdRehire(agentName)

\* tick() goes on: its synchronous code runs, and every call it awaits
\* returns or fails
TickGoesOn == ProcessAgent \/ MovementPosted \/ TurnDone \/ SleepDone

\* The main loop awaits tick() and a timer and begins the next tick; tick()
\* goes on until it returns; and an agent that is active again and again
\* when a tick begins is selected again and again.
FairLive ==
    /\ WF_vars(TickBeginLive)
    /\ WF_vars(TickGoesOn)
    /\ \A a \in Agents : SF_vars(TickBeginLive /\ Selected(a)')

SpecLive == InitLive /\ [][NextLive]_vars /\ FairLive

----------------------------------------------------------------------------
(* The scheduler alone: tick() with a roster of four agents that are idle,  *)
(* do not smoke and have no prompt file, so that the loop body of tick()   *)
(* does nothing for them, and the `fire` and `rehire` commands.  At        *)
(* startup either the whole roster is active or Fred alone is.             *)

Staff == {RosterOrder[i] : i \in 1..Len(RosterOrder)}

\* the last `n` elements of seq
LastOf(seq, n) == IF Len(seq) <= n THEN seq ELSE SubSeq(seq, Len(seq) - n + 1, Len(seq))

NoSelection ==
    [ticks |-> 0, stable |-> 0, firsts |-> <<>>, absent |-> [a \in Staff |-> 0],
     active |-> <<>>, limit |-> 0, rotated |-> <<>>, selected |-> <<>>]

\* What is known of the scheduler after the tick numbered tc drew `count`
\* and returned `selected`: the active list and the rotated list of the
\* tick, the bound Math.min(count, rotated.length) of its loop (limit), for
\* how many ticks in a row, counted up to the number of active agents, the
\* active list has been the same (stable), the first agents of the rotated lists of the last of those
\* ticks (firsts), and for each active agent the number of those ticks in a
\* row that did not select it, counted up to the number of active agents.
Recorded(sel, cfg, tc, count, selected) ==
    LET activeAgents == getActiveAgents(cfg)
        n == Len(activeAgents)
        same == activeAgents = sel.active
        rotated == IF n = 0 THEN <<>>
                   ELSE rotate(activeAgents, rotationOffset(tc, n))
        before == IF same THEN sel.firsts ELSE <<>>
        chosen == {selected[i] : i \in 1..Len(selected)}
    IN [ticks |-> sel.ticks + 1,
        stable |-> IF same THEN Min(sel.stable + 1, n) ELSE Min(1, n),
        firsts |-> IF n = 0 THEN <<>> ELSE LastOf(Append(before, rotated[1]), n),
        absent |-> [a \in Staff |->
                      IF ~cfg[a].isActive \/ a \in chosen THEN 0
                      ELSE IF same THEN Min(sel.absent[a] + 1, n)
                      ELSE 1],
        active |-> activeAgents,
        limit |-> Min(count, n),
        rotated |-> rotated,
        selected |-> selected]

\* tick(): tickCounter++, selectAgentsForTick(), and a loop that skips every
\* selected agent at `if (!fs.existsSync(agentPromptPath)) continue`
TickSelect ==
    /\ pc = "idle"
    /\ tickCounter < MaxRounds
    /\ tickCounter' = nextTick(tickCounter)
    /\ \E count \in Counts :
       \E selected \in selectWithCount(agentsConfig, nextTick(tickCounter), count) :
          selections' = Recorded(selections, agentsConfig, nextTick(tickCounter),
                                 count, selected)
    /\ UNCHANGED <<fileVars, hotelContext, agentsConfig, agentPositions, pc, queue, turnLocation,
                   logged, requests, external, commands, journey, callVars>>

InitSelect ==
    /\ hotelContext = HotelMain(NoOwner)
    /\ \E active \in {Staff, {"Fred"}} :
          /\ agentsConfig = [a \in Staff |-> Loaded(FALSE, a \in active, 0, Idle)]
          /\ agentPositions = [a \in Staff |->
                                  IF a \in active THEN ObjectPosition ELSE NoPosition]
    /\ journey = [a \in Staff |-> NoJourney]
    /\ tickCounter = 0
    /\ pc = "idle"
    /\ queue = <<>>
    /\ turnLocation = NoLocation
    /\ logged = <<>>
    /\ requests = <<>>
    /\ external = NoCalls
    /\ commands = 0
    /\ lastCall = NoCall
    /\ agentsConfigFile = NotFollowed
    /\ managed = NoChange
    /\ selections = NoSelection

NextSelect ==
    \/ TickSelect
    \/ \E agentName \in Staff : CmdFire(agentName)
    \/ \E agentName \in Staff : CmdRehire(agentName)

SpecSelect == InitSelect /\ [][NextSelect]_vars

----------------------------------------------------------------------------
(* Properties *)

InaccessibleRoom(agentName, location) ==
    /\ Exists(location)
    /\ locations[location].is_private_room
    /\ locations[location].owner # agentName

\* A move request of agent a was accepted in this step: a route was
\* installed (possibly right after the arrival of the previous one).
Accepted(a) ==
    /\ agentsConfig'[a].isMoving
    /\ journey'[a].hops = 0
    /\ ~agentsConfig[a].isMoving \/ journey'[a] # journey[a]

\* C1: whenever a move request is accepted, no location of the installed
\* route, waypoint or destination, is a private room whose owner is absent
\* or is another agent.
C1_RouteAvoidsInaccessibleRooms ==
    [][\A a \in Agents :
          Accepted(a) =>
             \A i \in 1..Len(journey'[a].route) :
                ~InaccessibleRoom(a, journey'[a].route[i])]_vars

\* consecutive elements of path are joined by a listed edge
ListedEdges(path) ==
    \A i \in 1..(Len(path) - 1) :
       /\ Exists(path[i])
       /\ \E k \in 1..Len(locations[path[i]].connections) :
             locations[path[i]].connections[k] = path[i + 1]

IsPathFromTo(path, from, to) ==
    /\ Len(path) >= 1
    /\ path[1] = from
    /\ path[Len(path)] = to
    /\ ListedEdges(path)

MutuallyReachable(agentName, from, to) ==
    /\ Exists(from) /\ Exists(to)
    /\ locations[from].floor = locations[to].floor
    /\ Dist(agentName, from, to) >= 0
    /\ Dist(agentName, to, from) >= 0

\* C2: for locations X, Y of one floor that are mutually reachable through
\* locations the agent may enter, findPath(X, Y) is a path from X to Y along
\* listed edges whose hop count is the breadth-first distance in the graph
\* restricted to that floor and to the locations the agent may enter.
C2_FindPathIsRestrictedShortest ==
    (lastCall.fn = "findPath" /\ MutuallyReachable(lastCall.agent, lastCall.from, lastCall.to))
    => /\ IsPathFromTo(lastCall.path, lastCall.from, lastCall.to)
       /\ Len(lastCall.path) - 1 = Dist(lastCall.agent, lastCall.from, lastCall.to)

\* the value a caller of fn gets for the request (agentName, from, to)
ValueOf(fn, agentName, from, to) ==
    IF fn = "findPath" THEN [path |-> findPath(from, to), ok |-> FALSE]
    ELSE [path |-> <<>>, ok |-> moveAgentFrom(agentName, from, to).ok]

LastValue ==
    IF lastCall.fn = "findPath" THEN [path |-> lastCall.path, ok |-> FALSE]
    ELSE [path |-> <<>>, ok |-> lastCall.ok]

\* the value returned by the last request differs from the value of every
\* request of kind `kind` on this hotel
DistinctFrom(kind) ==
    \A agentName \in Agents, from \in LocationNames, to \in LocationNames :
       RequestKind(agentName, from, to) = kind
       => ValueOf(lastCall.fn, agentName, from, to) # LastValue

LastKind == RequestKind(lastCall.agent, lastCall.from, lastCall.to)

\* C3: a path or move request whose origin and destination are on different
\* floors returns a value that differs from the value returned for a
\* same-floor request with no path.
C3_CrossFloorDistinctFromUnreachable ==
    (lastCall.fn \in {"findPath", "moveAgent"} /\ LastKind = "CrossFloor")
    => DistinctFrom("Unreachable")

\* C4: a path or move request that names a location which does not exist
\* returns a value that differs from the value returned for a request
\* between two existing locations with no path.
C4_NotFoundDistinctFromUnreachable ==
    (lastCall.fn \in {"findPath", "moveAgent"} /\ LastKind = "NotFound")
    => DistinctFrom("Unreachable")

\* C5: for an existing location, canAccessLocation is true when the location
\* is not a private room, whatever its staff_only flag, and for a private
\* room exactly when the room has an owner and the owner is the agent.
C5_CanAccessLocation ==
    (lastCall.fn = "canAccessLocation" /\ Exists(lastCall.to))
    => lastCall.ok =
          IF locations[lastCall.to].is_private_room
          THEN locations[lastCall.to].owner # NoOwner
               /\ locations[lastCall.to].owner = lastCall.agent
          ELSE TRUE

\* canAccessLocation was asked for a staff-only public location and for a
\* private room of somebody else or of nobody
C5_Witness ==
    /\ lastCall.fn = "canAccessLocation"
    /\ Exists(lastCall.to)
    /\ \/ locations[lastCall.to].staff_only /\ ~locations[lastCall.to].is_private_room
          /\ lastCall.ok
       \/ InaccessibleRoom(lastCall.agent, lastCall.to) /\ ~lastCall.ok

\* C6: the current location of every agent of the roster is the name of a
\* location of the location graph.
C6_PositionIsALocation == \A a \in Agents : Exists(agentPositions[a])

\* C7: for every agent that is moving, movementProgress equals the length
\* of movementPath and is greater than 0.
C7_ProgressIsPathLength ==
    \A a \in Agents :
       agentsConfig[a].isMoving
       => /\ agentsConfig[a].movementProgress = Len(agentsConfig[a].movementPath)
          /\ agentsConfig[a].movementProgress > 0

\* an agent is still moving after a hop of a route that moveAgent installed
\* in this run
C7_Witness ==
    \E a \in Agents :
       /\ agentsConfig[a].isMoving
       /\ journey[a].hops >= 1
       /\ Len(journey[a].route) >= 2
       /\ agentPositions[a] = journey[a].route[journey[a].hops]

\* C8: a move request for an agent that is already moving is refused and
\* leaves the agent's destination, path, steps remaining and current
\* location unchanged.
C8_MoveWhileMovingIsRefused ==
    [][\A i \in 1..Len(requests') :
          requests'[i].busy
          => /\ ~requests'[i].ok
             /\ agentsConfig'[requests'[i].agent] = agentsConfig[requests'[i].agent]
             /\ agentPositions'[requests'[i].agent] = agentPositions[requests'[i].agent]
             /\ agentsConfig'[requests'[i].agent].isMoving]_vars

\* the last step handled a move request for an agent that was moving
C8_Witness ==
    \E i \in 1..Len(requests) : requests[i].busy /\ agentsConfig[requests[i].agent].isMoving

\* an arrival of agent a is logged by this step
Arrives(a) == \E i \in 1..Len(logged') : logged'[i].agent = a

\* this step is the loop body of tick() for agent a
Processes(a) == pc = "run" /\ queue # <<>> /\ Head(queue) = a

\* a moving agent is on its route: after k hops it is at the k-th location
\* of the route, with the rest of the route and as many steps ahead of it
OnRoute(a) ==
    LET config == agentsConfig[a]
        route == journey[a].route
        k == journey[a].hops
    IN config.isMoving
       => /\ k < Len(route)
          /\ config.movementPath = SubSeq(route, k + 1, Len(route))
          /\ config.movementProgress = Len(route) - k
          /\ config.movingTo = route[Len(route)]
          /\ k > 0 => agentPositions[a] = route[k]

\* the step that processes a moving agent hops or arrives, and arrives
\* exactly on the last location of the route
HopOrArrival(a) ==
    (agentsConfig[a].isMoving /\ Processes(a))
    => IF Arrives(a)
       THEN /\ journey[a].hops = Len(journey[a].route) - 1
            /\ agentPositions'[a] = agentsConfig[a].movingTo
       ELSE /\ agentsConfig'[a].isMoving
            /\ journey'[a] = [journey[a] EXCEPT !.hops = @ + 1]

C10_ProgressDecreasesByOne ==
    /\ [](\A a \in Agents : agentsConfig[a].movementProgress >= 0)
    /\ [][\A a \in Agents :
             agentsConfig[a].isMoving
             => IF Processes(a)
                THEN IF Arrives(a)
                     THEN agentsConfig[a].movementProgress = 1
                     ELSE agentsConfig'[a].movementProgress
                             = agentsConfig[a].movementProgress - 1
                ELSE /\ agentsConfig'[a].isMoving
                     /\ agentsConfig'[a].movementProgress
                           = agentsConfig[a].movementProgress]_vars

\* tick() is suspended on the movement post of an agent whose hop left it
\* with steps to go, while the other agent, not processed, is moving too
C10_Witness ==
    /\ pc = "awaitMove"
    /\ agentsConfig[Head(queue)].isMoving
    /\ agentsConfig[Head(queue)].movementProgress >= 1
    /\ journey[Head(queue)].hops >= 1

\* `to` is listed in the connections of the existing location `from`
Connected(from, to) ==
    /\ Exists(from)
    /\ \E k \in 1..Len(locations[from].connections) : locations[from].connections[k] = to

\* C11: in every step of a tick (an agent is processed at most once per
\* tick), the current location of every agent stays the same or changes to
\* a location listed in the connections of its previous location.
C11_OneHopPerTick ==
    [][\A a \in Agents :
          \/ agentPositions'[a] = agentPositions[a]
          \/ Connected(agentPositions[a], agentPositions'[a])]_vars

\* C12: every agent of the selection made at the start of a tick is active
\* at that moment, so an agent fired and not rehired is in no later selection.
C12_SelectedAreActive ==
    [][tickCounter' # tickCounter
       => \A i \in 1..Len(queue') : agentsConfig[queue'[i]].isActive]_vars

\* a tick has just selected the only agent left active after a `fire`
\* command made the other one, active at startup, inactive
C12_Witness ==
    /\ pc = "run"
    /\ commands >= 1
    /\ requests = <<>>
    /\ Len(queue) = 1
    /\ \E a \in Agents :
          /\ ~agentsConfig[a].isActive
          /\ agentPositions[a] # NoPosition
          /\ queue[1] # a

\* C13: no step advances the movement of an inactive agent: no hop and no
\* arrival of an agent that is inactive when the step is taken.
C13_InactiveNeverAdvanced ==
    [][\A a \in Agents :
          (~agentsConfig[a].isActive /\ agentsConfig[a].isMoving)
          => /\ ~Arrives(a)
             /\ agentPositions'[a] = agentPositions[a]
             /\ agentsConfig'[a].movementPath = agentsConfig[a].movementPath
             /\ agentsConfig'[a].movementProgress = agentsConfig[a].movementProgress]_vars

\* everything of agent a but its active flag
Unflagged(cfg, a) == [cfg[a] EXCEPT !.isActive = TRUE]

\* C14: a step that changes the active flag of an agent (fireAgent,
\* rehireAgent) changes nothing else: every agent keeps its current location,
\* destination, remaining path, steps remaining and lastSmoke; and no other
\* agent's flag changes.  For a name that is not in the roster fireAgent and
\* rehireAgent change nothing.
C14_FireRehireFrame ==
    /\ [](\A name \in AgentNames \ DOMAIN agentsConfig :
            /\ fireAgent(agentsConfig, name) = agentsConfig
            /\ rehireAgent(agentsConfig, name) = agentsConfig)
    /\ [][(\E a \in Agents : agentsConfig'[a].isActive # agentsConfig[a].isActive)
       => /\ agentPositions' = agentPositions
          /\ journey' = journey
          /\ hotelContext' = hotelContext
          /\ tickCounter' = tickCounter
          /\ \A b \in Agents : Unflagged(agentsConfig', b) = Unflagged(agentsConfig, b)
          /\ Cardinality({b \in Agents :
                agentsConfig'[b].isActive # agentsConfig[b].isActive}) = 1]_vars

\* an agent was fired on its route, after a hop
C14_Witness ==
    \E a \in Agents :
       /\ ~agentsConfig[a].isActive
       /\ agentsConfig[a].isMoving
       /\ journey[a].hops >= 1
       /\ agentPositions[a] = journey[a].route[journey[a].hops]

\* how many times agent a is in seq
Occurrences(seq, a) == Cardinality({i \in 1..Len(seq) : seq[i] = a})

\* C15: once the active list has been the same for |A| ticks in a row, each
\* active agent has been the first element of the rotated list in exactly
\* one of the last |A| ticks.
C15_EachFirstOncePerRound ==
    (selections.active # <<>> /\ selections.stable >= Len(selections.active))
    => /\ Len(selections.firsts) = Len(selections.active)
       /\ \A i \in 1..Len(selections.active) :
             Occurrences(selections.firsts, selections.active[i]) = 1

\* four agents have been active for four ticks in a row
C15_Witness ==
    /\ Len(selections.active) = 4
    /\ selections.stable = 4
    /\ Len(selections.firsts) = 4

\* C16: while the active list stays the same, no active agent is absent from
\* the selections of |A| ticks in a row.
C16_SelectedOncePerRound ==
    \A i \in 1..Len(selections.active) :
       selections.absent[selections.active[i]] < Len(selections.active)

\* C17: the selection of a tick is empty exactly when no agent is active,
\* and after a tick that found no active agent the loop can run its next tick.
C17_EmptyOnlyWhenNoneActive ==
    /\ selections.ticks > 0
       => (selections.selected = <<>> <=> selections.active = <<>>)
    /\ (selections.ticks > 0 /\ selections.active = <<>> /\ tickCounter < MaxRounds)
       => ENABLED TickSelect

\* a tick ran with no active agent and selected nobody, after an earlier tick
C17_Witness ==
    /\ selections.ticks >= 2
    /\ selections.ticks = tickCounter
    /\ selections.active = <<>>
    /\ selections.selected = <<>>

\* sub is seq with some elements left out: the positions of the elements of
\* sub in seq increase
RECURSIVE IsSubsequence(_, _)
IsSubsequence(sub, seq) ==
    IF sub = <<>> THEN TRUE
    ELSE IF seq = <<>> THEN FALSE
    ELSE IF Head(sub) = Head(seq) THEN IsSubsequence(Tail(sub), Tail(seq))
    ELSE IsSubsequence(sub, Tail(seq))

\* C18: the selection of a tick holds no agent twice and is a subsequence,
\* in rotated order, of the first min(count, |A|) elements of the rotated
\* active list.
C18_SelectionInRotatedOrder ==
    /\ \A a \in Staff : Occurrences(selections.selected, a) <= 1
    /\ IsSubsequence(selections.selected,
                     SubSeq(selections.rotated, 1, selections.limit))

\* a tick selected, in rotated order, two agents that the rotation put
\* ahead of the first agent of the roster
C18_Witness ==
    /\ Len(selections.selected) >= 2
    /\ Len(selections.selected) < selections.limit
    /\ selections.rotated[1] # selections.active[1]
    /\ selections.selected[1] # selections.active[1]

\* C19: the selection of a tick with an active agent has 1 to 3 agents.
C19_OneToThreeSelected ==
    selections.active # <<>>
    => (Len(selections.selected) >= 1 /\ Len(selections.selected) <= 3)

\* C20: tickCounter is 0 at startup and always equals the number of ticks
\* begun; a step changes it only by beginning a tick, which adds exactly 1.
C20_TickCounterCountsTicks ==
    /\ tickCounter = 0
    /\ [](tickCounter = selections.ticks)
    /\ [][\/ tickCounter' = tickCounter
          \/ (tickCounter' = tickCounter + 1 /\ pc = "idle")]_vars

\* a tick that selected nobody has raised the counter to 2 or more
C20_Witness ==
    /\ tickCounter >= 2
    /\ selections.none
    /\ \A a \in Agents : ~agentsConfig[a].isActive

----------------------------------------------------------------------------
(* Smoking *)

\* this step is a loop body of tick() in which the diversion of a was granted
Granted(a) == Processes(a) /\ requests' # <<>>

\* C21: the smoking diversion is granted to an agent only if it is a smoker
\* and at least SMOKING_INTERVAL ticks have passed since its last-smoke
\* stamp; the stamp changes in no other step, so two diversions of one agent
\* are at least SMOKING_INTERVAL ticks apart.
C21_DiversionOnlyWhenDue ==
    [][\A a \in Agents :
          Granted(a) \/ agentsConfig'[a].lastSmoke # agentsConfig[a].lastSmoke
          => /\ agentsConfig[a].isSmoker
             /\ tickCounter - agentsConfig[a].lastSmoke >= SMOKING_INTERVAL
             /\ Granted(a)]_vars

\* a diversion was granted in the step just taken
C21_Witness ==
    \E a \in Agents :
       /\ requests # <<>>
       /\ requests[1].agent = a
       /\ agentsConfig[a].isSmoker
       /\ agentsConfig[a].lastSmoke = tickCounter
       /\ tickCounter >= SMOKING_INTERVAL

----------------------------------------------------------------------------
(* Refused moves *)

\* the reasons for which the last move request has to be refused
LastMoveHasReason ==
    \/ lastCall.agent \notin Agents
    \/ lastCall.from = lastCall.to
    \/ ~Exists(lastCall.to)
    \/ InaccessibleRoom(lastCall.agent, lastCall.to)
    \/ LastKind \in {"NotFound", "CrossFloor"}
    \/ findPath(lastCall.from, lastCall.to) = <<>>

\* C22: a move request for an unknown agent, to the current location, to a
\* location the agent may not enter, to an unknown location, to another
\* floor or with no path is refused, and a refused move request leaves the
\* position and the movement fields of every agent as they were; a request
\* to enter the private room of another agent starts no movement.
C22_RefusedMoveChangesNothing ==
    lastCall.fn = "moveAgent"
    => /\ LastMoveHasReason => ~lastCall.ok
       /\ ~lastCall.ok => ~lastCall.changed /\ lastCall.path = <<>>

\* Fred asked to go from the lobby into the private room of Louis
C22_Witness ==
    /\ lastCall.fn = "moveAgent"
    /\ lastCall.agent = "Fred"
    /\ lastCall.from = "lobby"
    /\ lastCall.to = "room_a1"
    /\ Exists("room_a1")
    /\ locations["room_a1"].owner = "Louis"
    /\ ~lastCall.ok
    /\ ~lastCall.changed

----------------------------------------------------------------------------
(* External calls *)

\* C25: whether the dialogue call or the webhook post failed or not, the
\* step that resumes tick() can leave the same positions and movement
\* fields, and it leaves the position and the movement fields of every
\* agent that is on a route as they were.
C25_ExternalFailureKeepsMovement ==
    [][external' # NoCalls
       => /\ \A outcome \in Outcomes :
                \E w \in (IF pc = "awaitTurn" THEN TurnResults(Head(queue), outcome)
                          ELSE {World}) :
                   /\ agentsConfig' = w.cfg
                   /\ agentPositions' = w.pos
          /\ \A a \in Agents :
                agentsConfig[a].isMoving
                => /\ agentsConfig'[a] = agentsConfig[a]
                   /\ agentPositions'[a] = agentPositions[a]]_vars

\* an external call has just failed while an agent was between the first
\* and the last hop of its route
C25_Witness ==
    /\ external = "failed"
    /\ \E a \in Agents :
          /\ agentsConfig[a].isMoving
          /\ journey[a].hops >= 1
          /\ agentsConfig[a].movementPath # <<>>

----------------------------------------------------------------------------
(* Rooms *)

\* C26: a location has an owner only if it is a private room, and
\* assignRoom leaves every owner and every is_locked as it is when the agent
\* is unknown, the room is unknown or the room is not private.
C26_OwnerOnlyOnPrivateRoom ==
    /\ \A loc \in DOMAIN locations :
          locations[loc].owner # NoOwner => locations[loc].is_private_room
    /\ \A agentName \in AgentNames, roomName \in RoomNames :
          (\/ agentName \notin Agents
           \/ ~Exists(roomName)
           \/ ~locations[roomName].is_private_room)
          => assignRoom(agentName, roomName) = locations

\* the console has given the private room to Fred
C26_Witness ==
    /\ commands >= 1
    /\ locations["room_a1"].owner = "Fred"
    /\ locations["room_a1"].is_locked
    /\ \A loc \in DOMAIN locations \ {"room_a1"} : locations[loc].owner = NoOwner

----------------------------------------------------------------------------
(* The console and the tick loop *)

\* a tick is in progress: tickCounter was incremented and the loop over the
\* selected agents has not ended
TickInProgress == pc # "idle"

\* C23: no fire, rehire, smoker, room or move command takes effect while a
\* tick is in progress: a command handled then leaves the agents and the
\* locations as they are.
C23_CommandsOnlyBetweenTicks ==
    [][(TickInProgress /\ commands' # commands)
       => /\ agentsConfig' = agentsConfig
          /\ hotelContext' = hotelContext]_vars

\* C24: the dialogue call is made only for a selected agent that is not
\* moving when the call is made and for which no diversion was granted in
\* this tick.
C24_TurnOnlyForIdleUndiverted ==
    [][\A a \in Agents :
          (Processes(a) /\ pc' = "awaitTurn")
          => /\ ~agentsConfig'[a].isMoving
             /\ \A i \in 1..Len(requests') : ~requests'[i].ok]_vars


\* the location of the job assigned to the agent
workLocation(agentName) == jobs[agentsConfig[agentName].job].location

\* this step resumes tick() after the turn of a, taken at the smoking area,
\* and sends a on its way back
SentBack(a) ==
    /\ pc = "awaitTurn"
    /\ Head(queue) = a
    /\ turnLocation = SmokingArea
    /\ commands' = commands
    /\ ~agentsConfig[a].isMoving
    /\ agentsConfig'[a].isMoving

\* C27: a smoker that took its turn at outside_smoking_area and is sent back
\* goes to its work location, the location of its assigned job.
C27_ReturnsToWorkLocation ==
    [][\A a \in Agents :
          (SentBack(a) /\ workLocation(a) # "any")
          => agentsConfig'[a].movingTo = workLocation(a)]_vars


\* C28: when a diversion is granted to an agent, its lastSmoke becomes the
\* current tick whether moveAgent accepted the move to the smoking area or
\* refused it, and no step makes the lastSmoke of an agent smaller.
C28_GrantStampsLastSmoke ==
    [][\A a \in Agents :
          /\ Granted(a) => agentsConfig'[a].lastSmoke = tickCounter
          /\ agentsConfig'[a].lastSmoke >= agentsConfig[a].lastSmoke]_vars

\* a diversion was granted to an agent that stands at the smoking area:
\* moveAgent refused and the stamp was set
C28_Witness ==
    /\ pc = "awaitTurn"
    /\ requests # <<>>
    /\ requests[1].agent = Head(queue)
    /\ ~requests[1].ok
    /\ agentPositions[Head(queue)] = SmokingArea
    /\ agentsConfig[Head(queue)].lastSmoke = tickCounter
    /\ tickCounter >= SMOKING_INTERVAL


\* C29: for a selected agent that is still moving after its hop of this
\* tick, shouldGoSmoke is not consulted: no diversion is granted, no move is
\* requested and its lastSmoke stays as it is; a diversion is granted only
\* to an agent that is idle when the policy is evaluated.
C29_NoDiversionWhileEnRoute ==
    [][\A a \in Agents :
          /\ (Processes(a) /\ agentsConfig[a].isMoving /\ ~Arrives(a))
             => /\ agentsConfig'[a].lastSmoke = agentsConfig[a].lastSmoke
                /\ requests' = <<>>
                /\ pc' = "awaitMove"
          /\ Granted(a) => (~agentsConfig[a].isMoving \/ Arrives(a))]_vars

\* a smoker whose diversion is due has made a hop, is still on its route and
\* was not diverted
C29_Witness ==
    /\ pc = "awaitMove"
    /\ agentsConfig[Head(queue)].isSmoker
    /\ tickCounter - agentsConfig[Head(queue)].lastSmoke >= SMOKING_INTERVAL
    /\ agentsConfig[Head(queue)].isMoving
    /\ journey[Head(queue)].hops >= 1
    /\ requests = <<>>

----------------------------------------------------------------------------
(* Arrival events *)

\* the arrival entries this step logs for agent a
ArrivalsOf(a) == {i \in 1..Len(logged') : logged'[i].agent = a}

\* C30: an agent that stops moving logs an arrival in that step; a step logs
\* at most one arrival per agent, and only in the loop body of tick() that
\* makes the last hop of a moving agent: the entry names the destination
\* of the journey and counts its hops, the agent is at that destination and
\* its movement fields are cleared (or, when it is diverted in the same
\* loop body, are those of the new route, of which no hop is made).
C30_OneArrivalPerJourney ==
    [][\A a \in Agents :
          /\ Cardinality(ArrivalsOf(a)) <= 1
          /\ (agentsConfig[a].isMoving /\ ~agentsConfig'[a].isMoving) => Arrives(a)
          /\ Arrives(a)
             => /\ Processes(a)
                /\ agentsConfig[a].isMoving
                /\ Len(agentsConfig[a].movementPath) <= 1
                /\ \A i \in ArrivalsOf(a) :
                      /\ logged'[i].arrive = agentsConfig[a].movingTo
                      /\ logged'[i].hops = Len(journey[a].route)
                /\ agentPositions'[a] = agentsConfig[a].movingTo
                /\ IF agentsConfig'[a].isMoving
                   THEN journey'[a].hops = 0 /\ Granted(a)
                   ELSE /\ agentsConfig'[a].movingTo = NoTarget
                        /\ agentsConfig'[a].movementPath = <<>>
                        /\ agentsConfig'[a].movementProgress = 0]_vars

\* an agent has just arrived: one entry is logged, the agent is idle at the
\* destination named in it and takes its turn there
C30_Witness ==
    /\ pc = "awaitTurn"
    /\ Len(logged) = 1
    /\ logged[1].agent = Head(queue)
    /\ agentPositions[Head(queue)] = logged[1].arrive
    /\ turnLocation = logged[1].arrive
    /\ ~agentsConfig[Head(queue)].isMoving
    /\ agentsConfig[Head(queue)].movingTo = NoTarget
    /\ agentsConfig[Head(queue)].movementPath = <<>>

----------------------------------------------------------------------------
(* Termination and floor of findPath *)

\* C38: findPath ends after at most one pass of its loop per location,
\* whatever cycles, self-loops, one-way edges and connections to missing or
\* other-floor locations the graph has, and every element of the path it
\* returns is an existing location on the floor of the origin.
C38_FindPathEndsOnOriginFloor ==
    lastCall.fn = "findPath"
    => /\ findPathPasses(lastCall.from, lastCall.to) <= Cardinality(DOMAIN locations)
       /\ \A i \in 1..Len(lastCall.path) :
             /\ Exists(lastCall.path[i])
             /\ locations[lastCall.path[i]].floor = locations[lastCall.from].floor

\* a search that met a connection to nowhere, one to another floor, a
\* self-loop and a cycle, and returned the path along the one-way edges
C38_Witness ==
    /\ lastCall.fn = "findPath"
    /\ lastCall.from = "pool"
    /\ lastCall.to = "bar"
    /\ lastCall.path = <<"pool", "lobby", "bar">>
    /\ findPathPasses("pool", "bar") = 3

----------------------------------------------------------------------------
(* Restart, rooms on the way and the reported progress *)

\* C36: the lastSmoke of every agent is at most tickCounter, so that the
\* elapsed value shouldGoSmoke computes is never negative, also when
\* tickCounter is 0 again after a restart and lastSmoke was reloaded.
C36_LastSmokeNotInFuture ==
    \A a \in Agents : agentsConfig[a].lastSmoke <= tickCounter

\* C31: the remaining path of a moving agent is a walk along listed edges
\* that begins at a location listed in the connections of the agent's
\* current location and ends at its destination.
C31_RemainingPathIsWalk ==
    \A a \in Agents :
       agentsConfig[a].isMoving
       => LET remaining == agentsConfig[a].movementPath IN
          /\ remaining # <<>>
          /\ Exists(agentPositions[a])
          /\ \E k \in 1..Len(locations[agentPositions[a]].connections) :
                locations[agentPositions[a]].connections[k] = remaining[1]
          /\ ListedEdges(remaining)
          /\ remaining[Len(remaining)] = agentsConfig[a].movingTo

\* C32: the current location of no agent is a private room whose owner is
\* absent or is another agent.
C32_NobodyInForeignRoom ==
    \A a \in Agents : ~InaccessibleRoom(a, agentPositions[a])

\* C35: the percentage reported for an agent that is still moving after a
\* hop is the share of the hops of its journey already made, rounded.
C35_ProgressIsShareOfHops ==
    (pc = "awaitMove" /\ journey[Head(queue)].route # <<>>)
    => progress(agentsConfig[Head(queue)])
          = roundPercent(journey[Head(queue)].hops, Len(journey[Head(queue)].route))

----------------------------------------------------------------------------
(* Room assignment *)

\* C33: every agent owns at most one room; after an accepted assignRoom the
\* room assigned is owned by the agent and locked, it is the only room the
\* agent owns, and the room the agent owned before, when it is another one,
\* has no owner and is unlocked.
C33_AtMostOneRoomPerAgent ==
    /\ \A a \in Agents : Cardinality(roomsOf(a)) <= 1
    /\ (lastCall.fn = "assignRoom" /\ lastCall.ok)
       => /\ locations[lastCall.to].owner = lastCall.agent
          /\ locations[lastCall.to].is_locked
          /\ roomsOf(lastCall.agent) = {lastCall.to}
          /\ (lastCall.from # NoRoom /\ lastCall.from # lastCall.to)
             => /\ locations[lastCall.from].owner = NoOwner
                /\ ~locations[lastCall.from].is_locked

\* Louis, who owned room_a1, has been given room_a3, taken from Fred
C33_Witness ==
    /\ lastCall.fn = "assignRoom"
    /\ lastCall.ok
    /\ lastCall.agent = "Louis"
    /\ lastCall.from = "room_a1"
    /\ lastCall.to = "room_a3"
    /\ locations["room_a1"].owner = NoOwner
    /\ locations["room_a3"].owner = "Louis"
    /\ roomsOf("Fred") = {}

----------------------------------------------------------------------------
(* agents-config.json written by two processes *)

\* the last change manage.ts wrote is in agents-config.json
ChangeInFile ==
    CASE managed.cmd = "add" -> managed.agent \in DOMAIN agentsConfigFile
      [] managed.cmd = "remove" -> managed.agent \notin DOMAIN agentsConfigFile
      [] managed.cmd = "assign" ->
           /\ managed.agent \in DOMAIN agentsConfigFile
           /\ agentsConfigFile[managed.agent].job = managed.job
      [] managed.cmd = "smoker" ->
           /\ managed.agent \in DOMAIN agentsConfigFile
           /\ agentsConfigFile[managed.agent].isSmoker = managed.flag
      [] managed.cmd = "active" ->
           /\ managed.agent \in DOMAIN agentsConfigFile
           /\ agentsConfigFile[managed.agent].isActive = managed.flag
      [] OTHER -> TRUE

\* C34: the last change manage.ts wrote to agents-config.json while the
\* simulation runs is in the file, whichever saves of the simulation followed.
C34_ManageChangeNotLost == ChangeInFile

----------------------------------------------------------------------------
(* Journeys end *)

\* agent a is en route to d
EnRouteTo(a, d) == agentsConfig[a].isMoving /\ agentsConfig[a].movingTo = d

\* agent a is idle at d
IdleAt(a, d) == ~agentsConfig[a].isMoving /\ agentPositions[a] = d

====
